---- MODULE Spec2Model ----
(***************************************************************************)
(* Model of ai_pr_reviewer.py: the unified-diff scan that locates the      *)
(* first added line of a patch (find_first_changed_line), and the run of   *)
(* main over the changed files of a pull request (fetch, generate,         *)
(* publish).                                                               *)
(*                                                                         *)
(* Text is modelled as a sequence of one-character strings, so that        *)
(* str.splitlines, str.startswith and the hunk-header regular expression   *)
(* are computed on characters, as the code computes them.                  *)
(***************************************************************************)
EXTENDS Integers, Sequences, FiniteSets, TLC

VARIABLES
    \* ---- the parser on its own (ParserSpec) ----
    patch_lines,  \* the lines the patch text is written from
    patch,        \* the patch text handed to find_first_changed_line
    ppc,          \* "built" before the call, "parsed" after it
    result,       \* what find_first_changed_line returned
    \* ---- one run of main (Spec) ----
    pc,           \* where main is
    env,          \* the process environment: which variables are set
    event_data,   \* what json.load returned for the event file
    files,        \* the changed files get_changed_files returned
    idx,          \* position of the for loop in files
    ai_comment,   \* the comment body of the file being reviewed
    log           \* the remote calls made so far, in order

parser_vars == <<patch_lines, patch, ppc, result>>
main_vars == <<pc, env, event_data, files, idx, ai_comment, log>>
vars == <<patch_lines, patch, ppc, result, pc, env, event_data, files, idx, ai_comment, log>>

----------------------------------------------------------------------------
\* Bounds of the model.

\* longest patch, in lines, the parser is run on
MaxLines == 4
\* most changed files a fetch returns
MaxFiles == 2

----------------------------------------------------------------------------
\* Text helpers.

\* Python's None, for a line number (the header pattern's \d+ never gives a
\* negative number).
None == -1

Digits == {"0", "1", "2", "3", "4", "5", "6", "7", "8", "9"}

DigitVal(c) ==
    CASE c = "0" -> 0 [] c = "1" -> 1 [] c = "2" -> 2 [] c = "3" -> 3
      [] c = "4" -> 4 [] c = "5" -> 5 [] c = "6" -> 6 [] c = "7" -> 7
      [] c = "8" -> 8 [] c = "9" -> 9

\* int(s) for a string of decimal digits
RECURSIVE ToInt(_)
ToInt(s) ==
    IF s = <<>> THEN 0
    ELSE 10 * ToInt(SubSeq(s, 1, Len(s) - 1)) + DigitVal(s[Len(s)])

\* str.startswith
StartsWith(s, prefix) ==
    /\ Len(s) >= Len(prefix)
    /\ SubSeq(s, 1, Len(prefix)) = prefix

\* str.splitlines on "\n": the text is cut at each newline, and a trailing
\* newline does not open a last empty line.
RECURSIVE SplitFrom(_, _, _)
SplitFrom(s, i, cur) ==
    IF i > Len(s) THEN (IF cur = <<>> THEN <<>> ELSE <<cur>>)
    ELSE IF s[i] = "\n" THEN <<cur>> \o SplitFrom(s, i + 1, <<>>)
    ELSE SplitFrom(s, i + 1, Append(cur, s[i]))

SplitLines(s) == SplitFrom(s, 1, <<>>)

----------------------------------------------------------------------------
\* The hunk header pattern  ^@@ -\d+(?:,\d+)? \+(\d+)(?:,\d+)? @@
\* matched at the start of a line (re.match: no anchor at the end).
\* A position of 0 is "no match".

\* the literal lit at position i of s: the position after it, or 0
MatchLit(s, i, lit) ==
    IF i > 0 /\ i + Len(lit) - 1 <= Len(s) /\ SubSeq(s, i, i + Len(lit) - 1) = lit
    THEN i + Len(lit) ELSE 0

\* \d+ at position i: the position after the longest run of digits, or 0
RECURSIVE DigitsEnd(_, _)
DigitsEnd(s, i) ==
    IF i <= Len(s) /\ s[i] \in Digits THEN DigitsEnd(s, i + 1) ELSE i

MatchDigits(s, i) ==
    IF i > 0 /\ DigitsEnd(s, i) > i THEN DigitsEnd(s, i) ELSE 0

\* (?:,\d+)? at position i: taken when a comma and digits are there
MatchOptCount(s, i) ==
    IF i = 0 THEN 0
    ELSE IF MatchDigits(s, MatchLit(s, i, <<",">>)) > 0
         THEN MatchDigits(s, MatchLit(s, i, <<",">>))
         ELSE i

\* hunk_pattern.match(line): int(match.group(1)), or None without a match
HunkMatch(line) ==
    LET a == MatchLit(line, 1, <<"@", "@", " ", "-">>)
        b == MatchOptCount(line, MatchDigits(line, a))
        c == MatchLit(line, b, <<" ", "+">>)
        d == MatchDigits(line, c)
        e == MatchOptCount(line, d)
        f == MatchLit(line, e, <<" ", "@", "@">>)
    IN  IF f > 0 THEN ToInt(SubSeq(line, c, d - 1)) ELSE None

----------------------------------------------------------------------------
\* find_first_changed_line

\* line_num = None, before the loop
InitLineNumOne == None + 2
InitLineNum == None

\* line.startswith('+') and not line.startswith('+++')
IsAddedAnyPlus(line) == StartsWith(line, <<"+">>)
IsAdded(line) ==
    StartsWith(line, <<"+">>) /\ ~StartsWith(line, <<"+", "+", "+">>)

\* elif not line.startswith('-'): line_num += 1
AdvanceCountsRemoved(line, line_num) == line_num + 1
Advance(line, line_num) ==
    IF ~StartsWith(line, <<"-">>) THEN line_num + 1 ELSE line_num

\* the for loop, from line i on with the cursor at line_num
RECURSIVE Scan(_, _, _)
Scan(lines, i, line_num) ==
    IF i > Len(lines) THEN None
    ELSE IF HunkMatch(lines[i]) # None
         THEN Scan(lines, i + 1, HunkMatch(lines[i]))
    ELSE IF line_num # None
         THEN IF IsAdded(lines[i]) THEN line_num
              ELSE Scan(lines, i + 1, Advance(lines[i], line_num))
    ELSE Scan(lines, i + 1, line_num)

find_first_changed_line(p) == Scan(SplitLines(p), 1, InitLineNum)

----------------------------------------------------------------------------
\* The lines patches are written from.

HeaderAt20 == <<"@", "@", " ", "-", "1", "0", ",", "3", " ", "+", "2", "0", ",", "4", " ", "@", "@">>
HeaderAt1 == <<"@", "@", " ", "-", "1", " ", "+", "1", " ", "@", "@", " ", "f">>
HeaderAt0 == <<"@", "@", " ", "-", "3", ",", "2", " ", "+", "0", ",", "0", " ", "@", "@">>
BadHeader == <<"@", "@", " ", "-", "1", " ", "5", " ", "@", "@">>
AddedLine == <<"+", "x">>
RemovedLine == <<"-", "x">>
ContextLine == <<" ", "x">>
FileHeaderLine == <<"+", "+", "+", " ", "b">>
NoNewlineLine == <<"\\", " ", "N">>

LineSet ==
    {HeaderAt20, HeaderAt1, HeaderAt0, BadHeader, AddedLine, RemovedLine,
     ContextLine, FileHeaderLine, NoNewlineLine}

\* "\n".join(lines)
RECURSIVE JoinLines(_)
JoinLines(lines) ==
    IF lines = <<>> THEN <<>>
    ELSE IF Len(lines) = 1 THEN lines[1]
    ELSE lines[1] \o <<"\n">> \o JoinLines(Tail(lines))

\* the patches the changed files of a run carry
PatchAdd == JoinLines(<<HeaderAt20, ContextLine, AddedLine>>)
PatchDel == JoinLines(<<HeaderAt1, RemovedLine, ContextLine>>)
PatchNoNewline == JoinLines(<<HeaderAt1, RemovedLine, NoNewlineLine, AddedLine>>)
PatchZero == JoinLines(<<HeaderAt0, AddedLine>>)

----------------------------------------------------------------------------
\* ParserSpec: find_first_changed_line applied to every patch of at most
\* MaxLines lines over LineSet.

RECURSIVE SeqsUpTo(_, _)
SeqsUpTo(S, n) ==
    IF n = 0 THEN {<<>>}
    ELSE SeqsUpTo(S, n - 1) \cup
         {Append(q, x) : q \in {r \in SeqsUpTo(S, n - 1) : Len(r) = n - 1}, x \in S}

NoEvent == [read |-> FALSE, has_pr |-> FALSE, number |-> FALSE, url |-> FALSE, head |-> "missing"]
NoEnv == [event_path |-> FALSE, repo |-> FALSE, token |-> FALSE, api_key |-> FALSE]

MainIdle ==
    /\ pc = "idle"
    /\ env = NoEnv
    /\ event_data = NoEvent
    /\ files = <<>>
    /\ idx = 0
    /\ ai_comment = ""
    /\ log = <<>>

ParserIdle ==
    /\ patch_lines = <<>>
    /\ patch = <<>>
    /\ ppc = "idle"
    /\ result = None

ParserInit ==
    /\ patch_lines \in SeqsUpTo(LineSet, MaxLines)
    /\ patch = JoinLines(patch_lines)
    /\ ppc = "built"
    /\ result = None
    /\ MainIdle

Parse ==
    /\ ppc = "built"
    /\ result' = find_first_changed_line(patch)
    /\ ppc' = "parsed"
    /\ UNCHANGED <<patch_lines, patch>>
    /\ UNCHANGED main_vars

ParserNext == Parse

ParserSpec == ParserInit /\ [][ParserNext]_vars

----------------------------------------------------------------------------
\* What a patch says, read off its lines without the parser: which lines are
\* well-formed hunk headers and where their new range starts, and the
\* new-file line numbers of its added lines.

IsHeader(l) == l \in {HeaderAt20, HeaderAt1, HeaderAt0}

NewRangeStart(l) ==
    CASE l = HeaderAt20 -> 20
      [] l = HeaderAt1 -> 1
      [] l = HeaderAt0 -> 0

\* positions of the added lines that follow some matched header
TargetPositions(ls) ==
    {i \in 1..Len(ls) : ls[i] = AddedLine /\ \E h \in 1..(i - 1) : IsHeader(ls[h])}

HasTarget(ls) == TargetPositions(ls) # {}

\* the first of them in document order
FirstTarget(ls) ==
    CHOOSE i \in TargetPositions(ls) : \A j \in TargetPositions(ls) : i <= j

\* the most recent matched header before position i
HeaderBefore(ls, i) ==
    CHOOSE h \in 1..(i - 1) :
        IsHeader(ls[h]) /\ \A g \in (h + 1)..(i - 1) : ~IsHeader(ls[g])

\* k: position i is the k-th line after its header, removed lines not counted
KthAfterHeader(ls, i) ==
    1 + Cardinality({j \in (HeaderBefore(ls, i) + 1)..(i - 1) : ls[j] # RemovedLine})

ExpectedLine(ls) ==
    NewRangeStart(ls[HeaderBefore(ls, FirstTarget(ls))])
        + KthAfterHeader(ls, FirstTarget(ls)) - 1

\* C1: for every patch with an added line after a matched hunk header, the
\* parser returns new_range_start + k - 1, where the first such added line is
\* the k-th line after its most recent header (removed lines not counted,
\* every other line counted); with several hunks it is the first added line
\* in document order that decides.
C1_FirstAddedLine ==
    /\ (ppc = "parsed" /\ HasTarget(patch_lines))
           => result = ExpectedLine(patch_lines)
    /\ (ppc = "parsed" /\ patch_lines = <<HeaderAt20, ContextLine, AddedLine>>)
           => result = 21

\* a patch of two hunks whose first hunk has no added line: the result comes
\* from the second header
C1_Witness ==
    /\ ppc = "parsed"
    /\ HasTarget(patch_lines)
    /\ \E g \in 1..Len(patch_lines) :
          /\ IsHeader(patch_lines[g])
          /\ g < HeaderBefore(patch_lines, FirstTarget(patch_lines))
          /\ patch_lines[g + 1] = RemovedLine
    /\ patch_lines[HeaderBefore(patch_lines, FirstTarget(patch_lines))] = HeaderAt20
    /\ result = 20

\* C3: for every patch in which no added line follows a matched hunk header
\* (no header at all, whatever '+' lines it has, or only headers, removed and
\* context lines), the parser returns None.
C3_NoTargetLine ==
    (ppc = "parsed" /\ ~HasTarget(patch_lines)) => result = None

\* a patch with added lines and no hunk header
C3_Witness ==
    /\ ppc = "parsed"
    /\ \E i \in 1..Len(patch_lines) : patch_lines[i] = AddedLine
    /\ \A i \in 1..Len(patch_lines) : ~IsHeader(patch_lines[i])
    /\ result = None

\* the patch with every line equal to l replaced by m
Replaced(ls, l, m) == [i \in 1..Len(ls) |-> IF ls[i] = l THEN m ELSE ls[i]]

\* the patch with every line equal to l dropped
RECURSIVE Without(_, _)
Without(ls, l) ==
    IF ls = <<>> THEN <<>>
    ELSE IF Head(ls) = l THEN Without(Tail(ls), l)
    ELSE <<Head(ls)>> \o Without(Tail(ls), l)

\* C9: a '+++' line is never returned as the added line: the parser treats it
\* as it treats a context line (the cursor advances by one and the scan goes
\* on), so the result is that of the patch with each '+++' line turned into a
\* context line, and is None when no other added line follows a header.
C9_FileHeaderNotAdded ==
    ppc = "parsed" =>
        /\ result = find_first_changed_line(
                        JoinLines(Replaced(patch_lines, FileHeaderLine, ContextLine)))
        /\ (~HasTarget(patch_lines) => result = None)

\* a '+++' line right after a matched header, an added line after it
C9_Witness ==
    /\ ppc = "parsed"
    /\ Len(patch_lines) = 3
    /\ patch_lines[1] = HeaderAt20
    /\ patch_lines[2] = FileHeaderLine
    /\ patch_lines[3] = AddedLine
    /\ result = 21

\* C10: a malformed hunk header line is skipped with the cursor untouched,
\* wherever it occurs: the result is that of the patch without it.
C10_BadHeaderSkipped ==
    ppc = "parsed" =>
        result = find_first_changed_line(JoinLines(Without(patch_lines, BadHeader)))

----------------------------------------------------------------------------
\* Spec: one run of main.

Fallback == "Unable to generate review comment."
ReviewText == "review text"

\* the outcomes of the remote calls for one file: what the text-generation
\* service does with its patch, and what the hosting API does with its comment
GenOutcomes == {"ok", "fail"}
PublishOutcomes == {"201", "422", "raise"}

\* a changed file record: file.get("patch") (has_patch is FALSE when the key is
\* absent), and how the services answer for it
FileSet ==
    [has_patch : {TRUE}, patch : {PatchAdd, PatchDel, PatchNoNewline, PatchZero},
     gen : GenOutcomes, pub : PublishOutcomes]
    \cup [has_patch : {FALSE}, patch : {<<>>}, gen : GenOutcomes, pub : PublishOutcomes]

\* the event payloads json.load can return
EventSet ==
    [read : {TRUE}, has_pr : {FALSE}, number : {FALSE}, url : {FALSE}, head : {"missing"}]
    \cup [read : {TRUE}, has_pr : {TRUE}, number : BOOLEAN, url : BOOLEAN,
          head : {"missing", "null", "no_sha", "sha"}]

Call(op, i, body, line) == [op |-> op, idx |-> i, body |-> body, line |-> line]

Init ==
    /\ pc = "start"
    /\ env \in [event_path : BOOLEAN, repo : BOOLEAN, token : BOOLEAN, api_key : BOOLEAN]
    /\ event_data = NoEvent
    /\ files = <<>>
    /\ idx = 0
    /\ ai_comment = ""
    /\ log = <<>>
    /\ ParserIdle

\* main, lines 93-96: GITHUB_EVENT_PATH is not set
NoEventPath ==
    /\ pc = "start"
    /\ ~env.event_path
    /\ pc' = "done"
    /\ UNCHANGED <<env, event_data, files, idx, ai_comment, log>>
    /\ UNCHANGED parser_vars

\* main, lines 98-99: open or json.load raises
ReadEventRaises ==
    /\ pc = "start"
    /\ env.event_path
    /\ pc' = "crashed"
    /\ UNCHANGED <<env, event_data, files, idx, ai_comment, log>>
    /\ UNCHANGED parser_vars

\* main, lines 98-99: the event file is read
ReadEvent ==
    /\ pc = "start"
    /\ env.event_path
    /\ \E ev \in EventSet : event_data' = ev
    /\ pc' = "validate"
    /\ UNCHANGED <<env, files, idx, ai_comment, log>>
    /\ UNCHANGED parser_vars

\* all([pr_number, pr_url, commit_id, repo, token])
AllRequired ==
    /\ event_data.number
    /\ event_data.url
    /\ event_data.head = "sha"
    /\ env.repo
    /\ env.token

\* main, lines 101-104: no pull_request in the payload
NoPullRequest ==
    /\ pc = "validate"
    /\ ~event_data.has_pr
    /\ pc' = "done"
    /\ UNCHANGED <<env, event_data, files, idx, ai_comment, log>>
    /\ UNCHANGED parser_vars

\* main, line 108: "head": null in the payload, None.get raises
HeadNullRaises ==
    /\ pc = "validate"
    /\ event_data.has_pr
    /\ event_data.head = "null"
    /\ pc' = "crashed"
    /\ UNCHANGED <<env, event_data, files, idx, ai_comment, log>>
    /\ UNCHANGED parser_vars

\* main, lines 112-114: a required value is missing
MissingRequired ==
    /\ pc = "validate"
    /\ event_data.has_pr
    /\ event_data.head # "null"
    /\ ~AllRequired
    /\ pc' = "done"
    /\ UNCHANGED <<env, event_data, files, idx, ai_comment, log>>
    /\ UNCHANGED parser_vars

\* main, line 116, get_changed_files: requests.get raises
FetchRaises ==
    /\ pc = "validate"
    /\ event_data.has_pr
    /\ event_data.head # "null"
    /\ AllRequired
    /\ log' = Append(log, Call("fetch", 0, "", None))
    /\ pc' = "crashed"
    /\ UNCHANGED <<env, event_data, files, idx, ai_comment>>
    /\ UNCHANGED parser_vars

\* main, lines 116-119: the fetch answers with a status other than 200, or
\* with an empty list
FetchNoFiles ==
    /\ pc = "validate"
    /\ event_data.has_pr
    /\ event_data.head # "null"
    /\ AllRequired
    /\ log' = Append(log, Call("fetch", 0, "", None))
    /\ pc' = "done"
    /\ UNCHANGED <<env, event_data, files, idx, ai_comment>>
    /\ UNCHANGED parser_vars

\* main, lines 116-121: the fetch answers with the changed files
FetchFiles ==
    /\ pc = "validate"
    /\ event_data.has_pr
    /\ event_data.head # "null"
    /\ AllRequired
    /\ \E fs \in SeqsUpTo(FileSet, MaxFiles) :
          /\ fs # <<>>
          /\ files' = fs
    /\ log' = Append(log, Call("fetch", 0, "", None))
    /\ idx' = 1
    /\ pc' = "loop"
    /\ UNCHANGED <<env, event_data, ai_comment>>
    /\ UNCHANGED parser_vars

\* if not patch
NoPatch(file) == ~file.has_patch \/ file.patch = <<>>

\* main, lines 123-126: the file has no patch
SkipFile ==
    /\ pc = "loop"
    /\ idx <= Len(files)
    /\ NoPatch(files[idx])
    /\ idx' = idx + 1
    /\ UNCHANGED <<pc, env, event_data, files, ai_comment, log>>
    /\ UNCHANGED parser_vars

\* what openai.ChatCompletion.create does: without an API key it raises
GenOutcome(file) == IF env.api_key THEN file.gen ELSE "fail"

\* generate_ai_review: the stripped text, or the fallback on any exception
GenerateReturnsEmpty(outcome) == IF outcome = "ok" THEN ReviewText ELSE ""
generate_ai_review(outcome) == IF outcome = "ok" THEN ReviewText ELSE Fallback

\* main, lines 128-129
Generate ==
    /\ pc = "loop"
    /\ idx <= Len(files)
    /\ ~NoPatch(files[idx])
    /\ log' = Append(log, Call("generate", idx, "", None))
    /\ ai_comment' = generate_ai_review(GenOutcome(files[idx]))
    /\ pc' = "post"
    /\ UNCHANGED <<env, event_data, files, idx>>
    /\ UNCHANGED parser_vars

\* post_review_comment, line 69: if not line_number
NotLineNumberNever(line_number) == FALSE
NotLineNumber(line_number) == line_number = None \/ line_number = 0

\* post_review_comment, lines 68-71: no line to anchor the comment at
PostNoLine ==
    /\ pc = "post"
    /\ NotLineNumber(find_first_changed_line(files[idx].patch))
    /\ idx' = idx + 1
    /\ pc' = "loop"
    /\ UNCHANGED <<env, event_data, files, ai_comment, log>>
    /\ UNCHANGED parser_vars

\* where main goes on after requests.post: an exception leaves main, any
\* response (201 or not) is printed and the loop goes on
AfterPublishReturnOnFailure(outcome) ==
    IF outcome = "raise" THEN "crashed" ELSE IF outcome = "201" THEN "loop" ELSE "done"
AfterPublish(outcome) == IF outcome = "raise" THEN "crashed" ELSE "loop"

\* post_review_comment, lines 73-90: the comment is sent
PostPublish ==
    /\ pc = "post"
    /\ ~NotLineNumber(find_first_changed_line(files[idx].patch))
    /\ log' = Append(log, Call("publish", idx, ai_comment,
                               find_first_changed_line(files[idx].patch)))
    /\ pc' = AfterPublish(files[idx].pub)
    /\ idx' = IF files[idx].pub = "raise" THEN idx ELSE idx + 1
    /\ UNCHANGED <<env, event_data, files, ai_comment>>
    /\ UNCHANGED parser_vars

\* main, line 121: the loop is over
LoopEnd ==
    /\ pc = "loop"
    /\ idx > Len(files)
    /\ pc' = "done"
    /\ UNCHANGED <<env, event_data, files, idx, ai_comment, log>>
    /\ UNCHANGED parser_vars

Next ==
    \/ NoEventPath
    \/ ReadEventRaises
    \/ ReadEvent
    \/ NoPullRequest
    \/ HeadNullRaises
    \/ MissingRequired
    \/ FetchRaises
    \/ FetchNoFiles
    \/ FetchFiles
    \/ SkipFile
    \/ Generate
    \/ PostNoLine
    \/ PostPublish
    \/ LoopEnd

Spec == Init /\ [][Next]_vars

----------------------------------------------------------------------------
\* Properties of a run.

Terminal == pc \in {"done", "crashed"}

\* the new-file line numbers of the added lines of a patch: after a header
\* the new file's line counter starts at the new range's start; an added
\* line ('+', a '+++ b' line included: in a file's patch it is the added
\* text '++ b') and a context line each take one line of the new file; a
\* removed line, a '\ No newline at end of file' marker and a malformed
\* header take none
RECURSIVE AddedNumbers(_, _, _)
AddedNumbers(ls, i, cur) ==
    IF i > Len(ls) THEN {}
    ELSE IF IsHeader(ls[i]) THEN AddedNumbers(ls, i + 1, NewRangeStart(ls[i]))
    ELSE IF cur = None THEN AddedNumbers(ls, i + 1, cur)
    ELSE IF ls[i] \in {AddedLine, FileHeaderLine}
         THEN {cur} \cup AddedNumbers(ls, i + 1, cur + 1)
    ELSE IF ls[i] = ContextLine THEN AddedNumbers(ls, i + 1, cur + 1)
    ELSE AddedNumbers(ls, i + 1, cur)

\* positions in the log of the calls of one kind made for file i
Entries(op, i) == {k \in 1..Len(log) : log[k].op = op /\ log[k].idx = i}

HasPatch(i) == files[i].has_patch /\ files[i].patch # <<>>

\* file i has an added line after a header, at a line number a comment can
\* be anchored at
Locatable(i) ==
    /\ HasPatch(i)
    /\ HasTarget(SplitLines(files[i].patch))
    /\ ExpectedLine(SplitLines(files[i].patch)) > 0

GenFails(i) == ~env.api_key \/ files[i].gen = "fail"

\* the publish call of file i raises
PublishRaises(i) == Locatable(i) /\ files[i].pub = "raise"

\* C2: every inline comment published carries the new-file line number of
\* an added line of that file's patch.
C2_AnchorIsAddedLine ==
    \A k \in 1..Len(log) :
        log[k].op = "publish" =>
            log[k].line \in AddedNumbers(SplitLines(files[log[k].idx].patch), 1, None)

\* C4: if any required configuration value is missing (one of the four
\* environment variables, or the payload's pull_request, number, url or
\* head.sha), no remote call is made.
C4_NoCallWhenConfigMissing ==
    ( \/ ~env.event_path
      \/ ~env.repo
      \/ ~env.token
      \/ ~env.api_key
      \/ (event_data.read /\ ( \/ ~event_data.has_pr
                               \/ ~event_data.number
                               \/ ~event_data.url
                               \/ event_data.head # "sha")) )
        => log = <<>>

\* C5: main always returns normally: no error propagates out of it.
C5_AlwaysEndsCleanly == pc # "crashed"

\* the calls the loop makes for the files of keep, from file j on
RECURSIVE ExpectedCalls(_, _)
ExpectedCalls(j, keep) ==
    IF j > Len(files) THEN <<>>
    ELSE IF j \notin keep \/ ~HasPatch(j) THEN ExpectedCalls(j + 1, keep)
    ELSE <<Call("generate", j, "", None)>> \o
         (IF ~Locatable(j) THEN ExpectedCalls(j + 1, keep)
          ELSE <<Call("publish", j, IF GenFails(j) THEN Fallback ELSE ReviewText,
                      ExpectedLine(SplitLines(files[j].patch)))>> \o
               (IF files[j].pub = "raise" THEN <<>> ELSE ExpectedCalls(j + 1, keep)))

\* the calls of the log made for files other than i
RECURSIVE CallsOfOthers(_, _)
CallsOfOthers(l, i) ==
    IF l = <<>> THEN <<>>
    ELSE IF Head(l).idx = i \/ Head(l).op = "fetch" THEN CallsOfOthers(Tail(l), i)
    ELSE <<Head(l)>> \o CallsOfOthers(Tail(l), i)

\* C6: for a changed file whose patch is non-empty and has no locatable added
\* line, the generation call is made (once, when the loop gets to the file),
\* no publish call is made, main does not fail at that file, and the calls
\* made for the other files are those of the run without that file.
C6_UnlocatableFileSkipped ==
    (Terminal /\ files # <<>>) =>
        \A i \in 1..Len(files) :
            (HasPatch(i) /\ ~Locatable(i)) =>
                /\ Cardinality(Entries("generate", i)) =
                       (IF \E k \in 1..(i - 1) : PublishRaises(k) THEN 0 ELSE 1)
                /\ Entries("publish", i) = {}
                /\ ~(pc = "crashed" /\ idx = i)
                /\ CallsOfOthers(log, i) = ExpectedCalls(1, (1..Len(files)) \ {i})

\* a pure deletion first, then a file with an added line, which is published
C6_Witness ==
    /\ pc = "done"
    /\ Len(files) = 2
    /\ files[1].has_patch
    /\ files[1].patch = PatchDel
    /\ files[2].patch = PatchAdd
    /\ Entries("generate", 1) # {}
    /\ Entries("publish", 1) = {}
    /\ Entries("publish", 2) # {}

\* C7: a failure of the generation call never aborts the run: the comment
\* body is the fallback string, a file with a locatable anchor still gets
\* its publish call, with exactly that body, and the loop goes on with the
\* remaining files (as far as no publish call raises).
C7_GenerationFailureFallback ==
    \A i \in 1..Len(files) :
        (HasPatch(i) /\ GenFails(i) /\ Entries("generate", i) # {}) =>
            /\ (pc = "post" /\ idx = i) => ai_comment = Fallback
            /\ \A k \in Entries("publish", i) : log[k].body = Fallback
            /\ (Locatable(i) /\ (idx > i \/ Terminal)) => Entries("publish", i) # {}
            /\ (pc = "crashed" /\ idx = i) => PublishRaises(i)
            /\ Terminal =>
                   \A j \in (i + 1)..Len(files) :
                       (HasPatch(j) /\ \A k \in i..(j - 1) : ~PublishRaises(k))
                           => Entries("generate", j) # {}

\* generation fails for the first file, its fallback comment is published,
\* and the second file is reviewed
C7_Witness ==
    /\ pc = "done"
    /\ Len(files) = 2
    /\ Locatable(1)
    /\ GenFails(1)
    /\ \E k \in Entries("publish", 1) : log[k].body = Fallback
    /\ Entries("generate", 2) # {}

\* C8: a non-success response to a publish call does not abort the run: each
\* later file with a patch gets its generation call and each later file with
\* a locatable anchor its publish call (as far as no publish call in between
\* raises), in list order, a file's publish call before the next file's
\* generation call.
C8_PublishFailureContinues ==
    /\ \A a, b \in 1..Len(log) :
           (a < b /\ log[a].op # "fetch") =>
               /\ log[a].idx <= log[b].idx
               /\ log[a].idx = log[b].idx =>
                      (log[a].op = "generate" /\ log[b].op = "publish")
    /\ Terminal =>
           \A i, j \in 1..Len(files) :
               ( /\ i < j
                 /\ Entries("publish", i) # {}
                 /\ files[i].pub = "422"
                 /\ HasPatch(j)
                 /\ \A k \in (i + 1)..(j - 1) : ~PublishRaises(k) ) =>
                   /\ \E g \in Entries("generate", j) :
                          \A q \in Entries("publish", i) : q < g
                   /\ Locatable(j) =>
                          \E q \in Entries("publish", j) :
                              \A g \in Entries("generate", j) : g < q

\* the first file's comment is refused, the second file is still reviewed
\* and its comment sent
C8_Witness ==
    /\ pc = "done"
    /\ Len(files) = 2
    /\ files[1].pub = "422"
    /\ Entries("publish", 1) # {}
    /\ Entries("generate", 2) # {}
    /\ Entries("publish", 2) # {}

====
